---------------------------- MODULE Spec2Model ----------------------------
(***************************************************************************)
(* Model of llamadocx's template field-merge engine                        *)
(* (src/src/llamadocx/template.py, with the parts of document.py,          *)
(* paragraph.py and table.py it runs through).                             *)
(*                                                                         *)
(* Text is a sequence of one-character strings.  Offsets of matches are    *)
(* Python offsets: start is 0-based, end is exclusive, so that             *)
(* text[start:end] is SubSeq(text, start + 1, end).                        *)
(***************************************************************************)
EXTENDS Integers, Sequences, FiniteSets, TLC

(***************************************************************************)
(* Bounds of the model.                                                    *)
(***************************************************************************)
\* longest item list handed to merge_repeating_section
MaxItems == 2
\* longest body a section expansion may grow the document to
MaxBody == 7
\* longest generated document, in blocks before its w:sectPr
MaxBlocks == 3
\* longest generated paragraph text, in pieces
MaxPieces == 4
\* most calls made on one Template
MaxCalls == 1
\* most merge_repeating_section calls made one after the other
MaxRepeats == 3

(***************************************************************************)
(* Text helpers.                                                           *)
(***************************************************************************)
\* str.join / concatenation of a sequence of texts
RECURSIVE Concat(_)
Concat(ss) == IF ss = <<>> THEN <<>> ELSE Head(ss) \o Concat(Tail(ss))

\* \s of the re module, over the alphabet of the model
IsSpace(c) == c \in {" ", "\n", "\t"}

\* text[i:i+len(w)] == w, i a Python offset
StartsWithAt(text, i, w) ==
    /\ i >= 0
    /\ i + Len(w) <= Len(text)
    /\ SubSeq(text, i + 1, i + Len(w)) = w

\* whether w occurs in text (Python: w in text)
Contains(text, w) == \E i \in 0..Len(text) : StartsWithAt(text, i, w)

\* number of consecutive \s characters of text from Python offset p on
RECURSIVE WsRun(_, _)
WsRun(text, p) ==
    IF p < Len(text) /\ IsSpace(text[p + 1]) THEN 1 + WsRun(text, p + 1) ELSE 0

(***************************************************************************)
(* Python values of a context: str, int, bool, None, dict, list.  A dict   *)
(* is its sequence of <<key, value>> pairs in insertion order.             *)
(***************************************************************************)
VStr(s) == [kind |-> "str", val |-> s]
VInt(n) == [kind |-> "int", val |-> n]
VBool(b) == [kind |-> "bool", val |-> b]
VDict(d) == [kind |-> "dict", val |-> d]
VList(l) == [kind |-> "list", val |-> l]

\* dict.keys()
Keys(d) == {d[i][1] : i \in 1..Len(d)}

\* dict.get(key, default)
DictGet(d, key, default) ==
    IF \E i \in 1..Len(d) : d[i][1] = key
    THEN d[CHOOSE i \in 1..Len(d) : d[i][1] = key][2]
    ELSE default

\* bool(v): the truth value Python gives a value
Truthy(v) ==
    CASE v.kind = "str" -> v.val # <<>>
      [] v.kind = "int" -> v.val # 0
      [] v.kind = "bool" -> v.val
      [] v.kind = "dict" -> v.val # <<>>
      [] v.kind = "list" -> v.val # <<>>
      [] OTHER -> FALSE

Digit(n) == <<"0", "1", "2", "3", "4", "5", "6", "7", "8", "9">>[n + 1]

\* str(n) of an int
RECURSIVE IntStr(_)
IntStr(n) ==
    IF n < 0 THEN <<"-">> \o IntStr(0 - n)
    ELSE IF n < 10 THEN <<Digit(n)>>
    ELSE IntStr(n \div 10) \o <<Digit(n % 10)>>

\* ", ".join(parts)
RECURSIVE JoinComma(_)
JoinComma(parts) ==
    IF parts = <<>> THEN <<>>
    ELSE IF Len(parts) = 1 THEN parts[1]
    ELSE parts[1] \o <<",", " ">> \o JoinComma(Tail(parts))

\* repr(v); the texts of the model hold no quote, backslash or control
\* character, so repr of a str is the text between single quotes
RECURSIVE Repr(_)
Repr(v) ==
    CASE v.kind = "str" -> <<"'">> \o v.val \o <<"'">>
      [] v.kind = "int" -> IntStr(v.val)
      [] v.kind = "bool" -> IF v.val THEN <<"T", "r", "u", "e">>
                                     ELSE <<"F", "a", "l", "s", "e">>
      [] v.kind = "dict" ->
            <<"{">> \o JoinComma([i \in 1..Len(v.val) |->
                Repr(VStr(v.val[i][1])) \o <<":", " ">> \o Repr(v.val[i][2])])
            \o <<"}">>
      [] v.kind = "list" ->
            <<"[">> \o JoinComma([i \in 1..Len(v.val) |-> Repr(VDict(v.val[i]))])
            \o <<"]">>
      [] OTHER -> <<"N", "o", "n", "e">>

\* str(v)
Str(v) == IF v.kind = "str" THEN v.val ELSE Repr(v)


(***************************************************************************)
(* Field Scanner: Template._field_pattern,                                 *)
(*   re.escape(open) + "\s*([^}]+?)\s*" + re.escape(close)                 *)
(* matched the way the re module matches it: leftmost start, then the      *)
(* first success in backtracking order (leading \s* greedy, group lazy,    *)
(* trailing \s* greedy).  The character class of the group is [^}] for     *)
(* every delimiter pair.                                                   *)
(***************************************************************************)
NoMatch == [ok |-> FALSE, start |-> 0, end |-> 0, name |-> <<>>, whole |-> <<>>]

\* trailing \s* (greedy: t characters, then fewer) followed by the close
\* delimiter, from Python offset q; the end offset of the match, or -1
RECURSIVE TryTrail(_, _, _, _)
TryTrail(text, q, t, close) ==
    IF StartsWithAt(text, q + t, close) THEN q + t + Len(close)
    ELSE IF t = 0 THEN 0 - 1
    ELSE TryTrail(text, q, t - 1, close)

\* the group ([^}]+?) (lazy: g characters, then more) from Python offset q
RECURSIVE TryGroup(_, _, _, _)
TryGroup(text, q, g, close) ==
    IF q + g > Len(text) \/ text[q + g] = "}" THEN [ok |-> FALSE, glen |-> 0, end |-> 0]
    ELSE LET e == TryTrail(text, q + g, WsRun(text, q + g), close)
         IN  IF e >= 0 THEN [ok |-> TRUE, glen |-> g, end |-> e]
             ELSE TryGroup(text, q, g + 1, close)

\* leading \s* (greedy: w characters, then fewer) from Python offset p
RECURSIVE TryLead(_, _, _, _)
TryLead(text, p, w, close) ==
    LET r == TryGroup(text, p + w, 1, close)
    IN  IF r.ok THEN [ok |-> TRUE, gstart |-> p + w, glen |-> r.glen, end |-> r.end]
        ELSE IF w = 0 THEN [ok |-> FALSE, gstart |-> 0, glen |-> 0, end |-> 0]
        ELSE TryLead(text, p, w - 1, close)

\* FieldPatternMatchAt taking the end of the text for a close delimiter
\* that is missing
FieldPatternMatchAt_OpenEnded(text, i, delimiters) ==
    IF ~StartsWithAt(text, i, delimiters[1]) THEN NoMatch
    ELSE LET p == i + Len(delimiters[1])
             r == TryLead(text, p, WsRun(text, p), delimiters[2])
         IN  IF r.ok
             THEN [ok |-> TRUE, start |-> i, end |-> r.end,
                   name |-> SubSeq(text, r.gstart + 1, r.gstart + r.glen),
                   whole |-> SubSeq(text, i + 1, r.end)]
             ELSE IF p < Len(text)
             THEN [ok |-> TRUE, start |-> i, end |-> Len(text),
                   name |-> SubSeq(text, p + 1, Len(text)),
                   whole |-> SubSeq(text, i + 1, Len(text))]
             ELSE NoMatch

\* _field_pattern.match(text, i): the match starting at Python offset i
FieldPatternMatchAt(text, i, delimiters) ==
    IF ~StartsWithAt(text, i, delimiters[1]) THEN NoMatch
    ELSE LET p == i + Len(delimiters[1])
             r == TryLead(text, p, WsRun(text, p), delimiters[2])
         IN  IF ~r.ok THEN NoMatch
             ELSE [ok |-> TRUE, start |-> i, end |-> r.end,
                   name |-> SubSeq(text, r.gstart + 1, r.gstart + r.glen),
                   whole |-> SubSeq(text, i + 1, r.end)]

\* list(_field_pattern.finditer(text)) from Python offset pos on
RECURSIVE FieldPatternFinditer(_, _, _)
FieldPatternFinditer(text, pos, delimiters) ==
    IF pos >= Len(text) THEN <<>>
    ELSE LET m == FieldPatternMatchAt(text, pos, delimiters)
         IN  IF m.ok THEN <<m>> \o FieldPatternFinditer(text, m.end, delimiters)
             ELSE FieldPatternFinditer(text, pos + 1, delimiters)

(***************************************************************************)
(* Paragraphs and runs (paragraph.py).  A run is its text and its direct   *)
(* formatting; a paragraph is its style and its runs.                      *)
(***************************************************************************)
\* Paragraph.add_run(text): the run python-docx appends, without formatting
NewRun(text) == [text |-> text, fmt |-> "none"]

AddRun(paragraph, text) == [paragraph EXCEPT !.runs = Append(@, NewRun(text))]

\* Paragraph.clear(): every run removed, the paragraph properties kept
ParagraphClear(paragraph) == [paragraph EXCEPT !.runs = <<>>]

\* Paragraph.text (getter): the runs' texts joined
ParagraphText(paragraph) ==
    Concat([i \in 1..Len(paragraph.runs) |-> paragraph.runs[i].text])

\* Paragraph.text = value (setter): clear(), then add_run(value)
ParagraphSetText(paragraph, value) == AddRun(ParagraphClear(paragraph), value)

(***************************************************************************)
(* Scalar Merger: Template._merge_paragraph_fields.                        *)
(***************************************************************************)
\* FieldRun taking remove_empty as False whatever is passed
FieldRun_KeepsAlways(m, field_values, remove_empty) ==
    LET field_value == DictGet(field_values, m.name, VStr(<<>>))
    IN  IF Truthy(field_value) THEN <<Str(field_value)>> ELSE <<m.whole>>

\* the value a match is replaced by: <<text>> of the run added for it, or
\* <<>> when no run is added
FieldRun(m, field_values, remove_empty) ==
    LET field_value == DictGet(field_values, m.name, VStr(<<>>))
    IN  IF Truthy(field_value) \/ ~remove_empty
        THEN IF ~Truthy(field_value) /\ ~remove_empty
             THEN <<m.whole>>
             ELSE <<Str(field_value)>>
        ELSE <<>>

\* MergeRunTexts without the step that adds the text after the last match
RECURSIVE MergeRunTexts_DropsTail(_, _, _, _, _, _)
MergeRunTexts_DropsTail(text, matches, k, last_end, field_values, remove_empty) ==
    IF k > Len(matches) THEN <<>>
    ELSE LET m == matches[k]
             before == IF m.start > last_end
                       THEN <<SubSeq(text, last_end + 1, m.start)>> ELSE <<>>
         IN  before \o FieldRun(m, field_values, remove_empty)
                \o MergeRunTexts_DropsTail(text, matches, k + 1, m.end, field_values,
                                           remove_empty)

\* the texts of the runs added by the loop over matches[k..] and by the
\* remaining-text step, last_end being the end of the previous match
RECURSIVE MergeRunTexts(_, _, _, _, _, _)
MergeRunTexts(text, matches, k, last_end, field_values, remove_empty) ==
    IF k > Len(matches)
    THEN IF last_end < Len(text) THEN <<SubSeq(text, last_end + 1, Len(text))>> ELSE <<>>
    ELSE LET m == matches[k]
             before == IF m.start > last_end
                       THEN <<SubSeq(text, last_end + 1, m.start)>> ELSE <<>>
         IN  before \o FieldRun(m, field_values, remove_empty)
                \o MergeRunTexts(text, matches, k + 1, m.end, field_values, remove_empty)

\* the merge without the early return: the runs are rebuilt from the text
\* even when the scanner finds no match
MergeParagraphFields_AlwaysRebuilds(paragraph, field_values, remove_empty, delimiters) ==
    LET text == ParagraphText(paragraph)
        matches == FieldPatternFinditer(text, 0, delimiters)
        texts == MergeRunTexts(text, matches, 1, 0, field_values, remove_empty)
    IN  [paragraph EXCEPT !.runs = [i \in 1..Len(texts) |-> NewRun(texts[i])]]

MergeParagraphFields(paragraph, field_values, remove_empty, delimiters) ==
    LET text == ParagraphText(paragraph)
        matches == FieldPatternFinditer(text, 0, delimiters)
        texts == MergeRunTexts(text, matches, 1, 0, field_values, remove_empty)
    IN  IF matches = <<>> THEN paragraph
        ELSE [paragraph EXCEPT !.runs = [i \in 1..Len(texts) |-> NewRun(texts[i])]]

(***************************************************************************)
(* The document body (document.py, table.py): the children of the body     *)
(* element in document order.  A child is a paragraph, a table or the      *)
(* section properties element (w:sectPr) that closes a body.  A table is   *)
(* its rows, a row its cells, a cell its own paragraphs and the tables     *)
(* nested in it.                                                           *)
(***************************************************************************)
\* Document.add_paragraph(): the empty paragraph python-docx creates
EmptyParagraph == [kind |-> "p", style |-> "Normal", runs |-> <<>>]

SectPr == [kind |-> "sectPr"]

\* Cell.text (getter): the cell's own paragraphs' texts joined by "\n"
RECURSIVE JoinNewline(_)
JoinNewline(parts) ==
    IF parts = <<>> THEN <<>>
    ELSE IF Len(parts) = 1 THEN parts[1]
    ELSE parts[1] \o <<"\n">> \o JoinNewline(Tail(parts))

CellText(cell) == JoinNewline([i \in 1..Len(cell.paras) |-> ParagraphText(cell.paras[i])])

\* Cell.text = value (setter): the content of the cell is replaced by one
\* paragraph holding one run
CellSetText(cell, value) ==
    [paras |-> <<AddRun(EmptyParagraph, value)>>, tables |-> <<>>]

\* Document.add_table(rows, cols): every cell holds one empty paragraph
NewTable(rows, cols) ==
    [kind |-> "tbl",
     rows |-> [i \in 1..rows |-> [j \in 1..cols |->
                  [paras |-> <<EmptyParagraph>>, tables |-> <<>>]]]]

\* len(table.columns)
ColumnCount(table) == IF table.rows = <<>> THEN 0 ELSE Len(table.rows[1])

\* python-docx puts a new body child before the w:sectPr, when there is one
AppendBlock(b, block) ==
    IF b # <<>> /\ b[Len(b)].kind = "sectPr"
    THEN SubSeq(b, 1, Len(b) - 1) \o <<block, b[Len(b)]>>
    ELSE Append(b, block)

\* the position of the child AppendBlock has just added
LastBlockPos(b) == IF b[Len(b)].kind = "sectPr" THEN Len(b) - 1 ELSE Len(b)

\* lxml's body.insert(index, element) for an element that is a child of
\* the body already (at position from): it is moved before the child now
\* at Python index `index`, or to the end when there is none
BodyInsert(b, index, from) ==
    LET el == b[from]
        target == index + 1
    IN  IF target = from THEN b
        ELSE IF target > Len(b)
        THEN SubSeq(b, 1, from - 1) \o SubSeq(b, from + 1, Len(b)) \o <<el>>
        ELSE IF from > target
        THEN SubSeq(b, 1, target - 1) \o <<el>> \o SubSeq(b, target, from - 1)
                \o SubSeq(b, from + 1, Len(b))
        ELSE SubSeq(b, 1, from - 1) \o SubSeq(b, from + 1, target - 1) \o <<el>>
                \o SubSeq(b, target, Len(b))

(***************************************************************************)
(* Template.merge_fields: the body's own paragraphs, then the own          *)
(* paragraphs of every cell of the body's own tables.                      *)
(***************************************************************************)
MergeCellFields(cell, field_values, remove_empty, delimiters) ==
    [cell EXCEPT !.paras = [i \in 1..Len(cell.paras) |->
        MergeParagraphFields(cell.paras[i], field_values, remove_empty, delimiters)]]

MergeTableFields(table, field_values, remove_empty, delimiters) ==
    [table EXCEPT !.rows = [i \in 1..Len(table.rows) |->
        [j \in 1..Len(table.rows[i]) |->
            MergeCellFields(table.rows[i][j], field_values, remove_empty, delimiters)]]]

MergeFieldsBody(b, field_values, remove_empty, delimiters) ==
    [i \in 1..Len(b) |->
        CASE b[i].kind = "p" ->
                MergeParagraphFields(b[i], field_values, remove_empty, delimiters)
          [] b[i].kind = "tbl" ->
                MergeTableFields(b[i], field_values, remove_empty, delimiters)
          [] OTHER -> b[i]]

(***************************************************************************)
(* Template.merge_repeating_section.                                       *)
(***************************************************************************)
StartWord == <<"s", "t", "a", "r", "t", "_">>
EndWord == <<"e", "n", "d", "_">>

\* SearchMarker as a comparison of the whole text with the marker token
SearchMarker_WholeText(text, word, section_name, delimiters) ==
    text = delimiters[1] \o word \o section_name \o delimiters[2]

\* re.search(f"{open}\s*{word}{section_name}\s*{close}", text); the two
\* delimiter pairs and the section names of the model hold no character
\* that is special in a regular expression
SearchMarker(text, word, section_name, delimiters) ==
    \E i \in 0..Len(text) :
        /\ StartsWithAt(text, i, delimiters[1])
        /\ \E w \in 0..WsRun(text, i + Len(delimiters[1])) :
            LET q == i + Len(delimiters[1]) + w
                r == q + Len(word) + Len(section_name)
            IN  /\ StartsWithAt(text, q, word \o section_name)
                /\ \E t \in 0..WsRun(text, r) : StartsWithAt(text, r + t, delimiters[2])

\* The loop "for element in self.doc" from child i on, over
\* Document.__iter__: a paragraph is yielded; for any other child
\* __iter__ evaluates _Table._tbl_elm, which raises AttributeError where
\* python-docx's Table has no such attribute (tbl_elm false), and otherwise
\* yields a table and skips the w:sectPr.  start_para and end are positions
\* in b (0: None), content the positions of content_elements.
RECURSIVE ScanSection(_, _, _, _, _, _, _)
ScanSection(b, i, start_para, content, section_name, delimiters, tbl_elm) ==
    IF i > Len(b)
    THEN [start |-> start_para, end |-> 0, content |-> content, raised |-> FALSE]
    ELSE IF b[i].kind # "p" /\ ~tbl_elm
    THEN [start |-> start_para, end |-> 0, content |-> content, raised |-> TRUE]
    ELSE IF b[i].kind = "sectPr"
    THEN ScanSection(b, i + 1, start_para, content, section_name, delimiters, tbl_elm)
    ELSE IF b[i].kind = "p"
            /\ SearchMarker(ParagraphText(b[i]), StartWord, section_name, delimiters)
    THEN ScanSection(b, i + 1, i, content, section_name, delimiters, tbl_elm)
    ELSE IF b[i].kind = "p"
            /\ SearchMarker(ParagraphText(b[i]), EndWord, section_name, delimiters)
    THEN [start |-> start_para, end |-> i, content |-> content, raised |-> FALSE]
    ELSE ScanSection(b, i + 1, start_para,
                     IF start_para # 0 THEN Append(content, i) ELSE content,
                     section_name, delimiters, tbl_elm)

\* "Remove original content": the body without the children at positions ps
RemoveBlocks(b, ps) ==
    LET keep(i) == \A k \in 1..Len(ps) : ps[k] # i
    IN  SelectSeq([i \in 1..Len(b) |-> <<i, b[i]>>], LAMBDA e : keep(e[1]))

\* the clone of one content element for one item, as it is when it is
\* inserted: a new paragraph given the element's text and merged with
\* remove_empty = True, or a new table of the same size whose cells are
\* given the cells' texts and merged
CloneCell(cell, item, delimiters) ==
    MergeCellFields(CellSetText(cell, CellText(cell)), item, TRUE, delimiters)

\* CloneElement merging with remove_empty = False
CloneElement_KeepsUnresolved(element, item, delimiters) ==
    IF element.kind = "p"
    THEN MergeParagraphFields(ParagraphSetText(EmptyParagraph, ParagraphText(element)),
                              item, FALSE, delimiters)
    ELSE MergeTableFields(element, item, FALSE, delimiters)

CloneElement(element, item, delimiters) ==
    IF element.kind = "p"
    THEN MergeParagraphFields(ParagraphSetText(EmptyParagraph, ParagraphText(element)),
                              item, TRUE, delimiters)
    ELSE LET new_table == NewTable(Len(element.rows), ColumnCount(element))
         IN  [new_table EXCEPT !.rows = [i \in 1..Len(element.rows) |->
                [j \in 1..Len(element.rows[i]) |->
                    CloneCell(element.rows[i][j], item, delimiters)]]]

\* InsertRepeated leaving each clone where add_paragraph or add_table has
\* appended it
RECURSIVE InsertRepeated_LeftAtEnd(_, _, _, _, _, _, _)
InsertRepeated_LeftAtEnd(b, insert_idx, items, it, elements, c, delimiters) ==
    IF it > Len(items) THEN b
    ELSE IF c > Len(elements)
    THEN InsertRepeated_LeftAtEnd(b, insert_idx, items, it + 1, elements, 1, delimiters)
    ELSE InsertRepeated_LeftAtEnd(
            AppendBlock(b, CloneElement(elements[c], items[it], delimiters)),
            insert_idx + 1, items, it, elements, c + 1, delimiters)

\* "Insert repeated content": items[it..], and content_elements[c..] of
\* items[it]; each clone is appended to the body by add_paragraph or
\* add_table and then moved to insert_idx
RECURSIVE InsertRepeated(_, _, _, _, _, _, _)
InsertRepeated(b, insert_idx, items, it, elements, c, delimiters) ==
    IF it > Len(items) THEN b
    ELSE IF c > Len(elements)
    THEN InsertRepeated(b, insert_idx, items, it + 1, elements, 1, delimiters)
    ELSE LET b1 == AppendBlock(b, CloneElement(elements[c], items[it], delimiters))
             b2 == BodyInsert(b1, insert_idx, LastBlockPos(b1))
         IN  InsertRepeated(b2, insert_idx + 1, items, it, elements, c + 1, delimiters)

NoError == [kind |-> "none", msg |-> <<>>]

\* ValueError(f"Section '{section_name}' not found in template")
SectionNotFoundError(section_name) ==
    [kind |-> "ValueError",
     msg |-> <<"Section '">> \o section_name \o <<"' not found in template">>]

\* AttributeError raised by Document.__iter__
TblElmError == [kind |-> "AttributeError", msg |-> <<"_tbl_elm">>]

\* ExpandSection that leaves the collected content where it is and inserts
\* the clones after the start marker
ExpandSection_KeepsContent(b, scan, items, delimiters) ==
    LET elements == [k \in 1..Len(scan.content) |-> b[scan.content[k]]]
    IN  InsertRepeated(b, scan.start, items, 1, elements, 1, delimiters)

\* the body after the marker scan has succeeded
ExpandSection(b, scan, items, delimiters) ==
    LET removed == RemoveBlocks(b, scan.content)
        kept == [i \in 1..Len(removed) |-> removed[i][2]]
        \* body.index(start_para) + 1
        insert_idx == CHOOSE k \in 1..Len(removed) : removed[k][1] = scan.start
        elements == [k \in 1..Len(scan.content) |-> b[scan.content[k]]]
    IN  InsertRepeated(kept, insert_idx, items, 1, elements, 1, delimiters)

\* MergeRepeatingSection with an error of its own for a missing end marker
MergeRepeatingSection_TwoErrors(b, section_name, items, delimiters, tbl_elm) ==
    LET scan == ScanSection(b, 1, 0, <<>>, section_name, delimiters, tbl_elm)
    IN  IF scan.raised THEN [body |-> b, error |-> TblElmError]
        ELSE IF scan.start = 0
        THEN [body |-> b, error |-> SectionNotFoundError(section_name)]
        ELSE IF scan.end = 0
        THEN [body |-> b,
              error |-> [kind |-> "ValueError",
                         msg |-> <<"Section '">> \o section_name \o <<"' not terminated">>]]
        ELSE [body |-> ExpandSection(b, scan, items, delimiters), error |-> NoError]

\* MergeRepeatingSection removing the content collected before it looks
\* whether both markers were found
MergeRepeatingSection_RemovesFirst(b, section_name, items, delimiters, tbl_elm) ==
    LET scan == ScanSection(b, 1, 0, <<>>, section_name, delimiters, tbl_elm)
        removed == RemoveBlocks(b, scan.content)
    IN  IF scan.raised THEN [body |-> b, error |-> TblElmError]
        ELSE IF scan.start = 0 \/ scan.end = 0
        THEN [body |-> [i \in 1..Len(removed) |-> removed[i][2]],
              error |-> SectionNotFoundError(section_name)]
        ELSE [body |-> ExpandSection(b, scan, items, delimiters), error |-> NoError]

\* the whole call: the body it leaves and the error it raises
MergeRepeatingSection(b, section_name, items, delimiters, tbl_elm) ==
    LET scan == ScanSection(b, 1, 0, <<>>, section_name, delimiters, tbl_elm)
    IN  IF scan.raised THEN [body |-> b, error |-> TblElmError]
        ELSE IF scan.start = 0 \/ scan.end = 0
        THEN [body |-> b, error |-> SectionNotFoundError(section_name)]
        ELSE [body |-> ExpandSection(b, scan, items, delimiters), error |-> NoError]

(***************************************************************************)
(* Template.get_fields: the names matched in the body's own paragraphs and *)
(* in the own paragraphs of the cells of the body's own tables, as a       *)
(* sorted list.                                                            *)
(***************************************************************************)
\* tab, newline and printable ASCII characters in code point order (the
\* quotation mark, the backslash and the grave accent left out): Python
\* compares strings by code point
Ascii ==
    << "\t", "\n", " ", "!", "#", "$", "%", "&", "'", "(", ")", "*", "+", ",", "-",
       ".", "/", "0", "1", "2", "3", "4", "5", "6", "7", "8", "9", ":", ";", "<", "=",
       ">", "?", "@", "A", "B", "C", "D", "E", "F", "G", "H", "I", "J", "K", "L", "M",
       "N", "O", "P", "Q", "R", "S", "T", "U", "V", "W", "X", "Y", "Z", "[", "]",
       "^", "_", "a", "b", "c", "d", "e", "f", "g", "h", "i", "j", "k", "l", "m",
       "n", "o", "p", "q", "r", "s", "t", "u", "v", "w", "x", "y", "z", "{", "|", "}",
       "~" >>

CodePoint(c) == CHOOSE i \in 1..Len(Ascii) : Ascii[i] = c

\* a < b for two str values
RECURSIVE StrLess(_, _)
StrLess(a, b) ==
    IF b = <<>> THEN FALSE
    ELSE IF a = <<>> THEN TRUE
    ELSE IF Head(a) = Head(b) THEN StrLess(Tail(a), Tail(b))
    ELSE CodePoint(Head(a)) < CodePoint(Head(b))

\* SortedList with the greatest name first
RECURSIVE SortedList_Descending(_)
SortedList_Descending(fields) ==
    IF fields = {} THEN <<>>
    ELSE LET m == CHOOSE x \in fields : \A y \in fields : x = y \/ StrLess(y, x)
         IN  <<m>> \o SortedList_Descending(fields \ {m})

\* sorted(list(fields)) of a set of str
RECURSIVE SortedList(_)
SortedList(fields) ==
    IF fields = {} THEN <<>>
    ELSE LET m == CHOOSE x \in fields : \A y \in fields : x = y \/ StrLess(x, y)
         IN  <<m>> \o SortedList(fields \ {m})

\* match.group(1) of the matches in one paragraph
ParagraphFields(paragraph, delimiters) ==
    LET matches == FieldPatternFinditer(ParagraphText(paragraph), 0, delimiters)
    IN  {matches[k].name : k \in 1..Len(matches)}

CellFields(cell, delimiters) ==
    UNION {ParagraphFields(cell.paras[k], delimiters) : k \in 1..Len(cell.paras)}

TableFields(table, delimiters) ==
    UNION {UNION {CellFields(table.rows[i][j], delimiters) : j \in 1..Len(table.rows[i])} :
            i \in 1..Len(table.rows)}

\* the `fields` set of get_fields
FieldSet(b, delimiters) ==
    UNION {IF b[i].kind = "p" THEN ParagraphFields(b[i], delimiters)
           ELSE IF b[i].kind = "tbl" THEN TableFields(b[i], delimiters)
           ELSE {} : i \in 1..Len(b)}

GetFieldsList(b, delimiters) == SortedList(FieldSet(b, delimiters))

(***************************************************************************)
(* Template.add_field.                                                     *)
(***************************************************************************)
\* f"{open} {field_name} {close}"
FieldText(field_name, delimiters) ==
    delimiters[1] \o <<" ">> \o field_name \o <<" ">> \o delimiters[2]

\* ValueError("Must provide either paragraph or cell")
NoTargetError == [kind |-> "ValueError", msg |-> <<"Must provide either paragraph or cell">>]

\* Cell.add_paragraph().add_run(text)
CellAddParagraph(cell, text) ==
    [cell EXCEPT !.paras = Append(@, AddRun(EmptyParagraph, text))]

\* add_field with its run put in the place of the paragraph's runs
AddField_ReplacesRuns(b, field_name, paragraph, cell, delimiters) ==
    IF paragraph = 0 /\ cell = <<>> THEN [body |-> b, error |-> NoTargetError]
    ELSE IF paragraph # 0
    THEN [body |-> [b EXCEPT ![paragraph] =
                        ParagraphSetText(@, FieldText(field_name, delimiters))],
          error |-> NoError]
    ELSE [body |-> [b EXCEPT ![cell[1]].rows[cell[2]][cell[3]] =
                        CellAddParagraph(@, FieldText(field_name, delimiters))],
          error |-> NoError]

\* the whole call: paragraph is the position of a paragraph of the body
\* (0: None), cell the <<table, row, column>> of a cell (<<>>: None)
AddField(b, field_name, paragraph, cell, delimiters) ==
    IF paragraph = 0 /\ cell = <<>> THEN [body |-> b, error |-> NoTargetError]
    ELSE IF paragraph # 0
    THEN [body |-> [b EXCEPT ![paragraph] = AddRun(@, FieldText(field_name, delimiters))],
          error |-> NoError]
    ELSE [body |-> [b EXCEPT ![cell[1]].rows[cell[2]][cell[3]] =
                        CellAddParagraph(@, FieldText(field_name, delimiters))],
          error |-> NoError]

(***************************************************************************)
(* The inputs of the model: delimiter pairs, texts, documents, contexts.   *)
(***************************************************************************)
DefaultDelimiters == << <<"{", "{">>, <<"}", "}">> >>
AngleDelimiters == << <<"<", "<">>, <<">", ">">> >>
DelimiterPairs == {DefaultDelimiters, AngleDelimiters}

\* open + name + close
Tok(d, name) == d[1] \o name \o d[2]

StartMarker(d, section_name) == Tok(d, StartWord \o section_name)
EndMarker(d, section_name) == Tok(d, EndWord \o section_name)

\* Document.add_paragraph(text): one run without formatting
Para(text) == [kind |-> "p", style |-> "Normal", runs |-> <<NewRun(text)>>]

\* a table of one row whose cells hold one paragraph each
Row1(texts) ==
    [kind |-> "tbl",
     rows |-> << [j \in 1..Len(texts) |-> [paras |-> <<Para(texts[j])>>, tables |-> <<>>]] >>]

\* a table of one cell that holds a paragraph and, nested in the cell, a
\* table of one cell
NestedTable(text, nested) ==
    [kind |-> "tbl",
     rows |-> << << [paras |-> <<Para(text)>>, tables |-> <<Row1(<<nested>>)>>] >> >>]

\* a paragraph of two runs, the first a bold run of one character
BoldStart(text) ==
    [kind |-> "p", style |-> "Normal",
     runs |-> << [text |-> SubSeq(text, 1, 1), fmt |-> "bold"],
                 [text |-> SubSeq(text, 2, Len(text)), fmt |-> "none"] >>]

NameA == <<"a">>
NameB == <<"b">>
NameK == <<"k">>
NameL == <<"l">>
NameN == <<"n">>
NameCN == <<"c", ".", "n">>

SectionNames == {NameA}

\* the blocks the generated documents are made of: the two markers of
\* section a and a content paragraph
BlockPool(d) ==
    { Para(StartMarker(d, NameA)),
      Para(EndMarker(d, NameA)),
      Para(<<"-", " ">> \o Tok(d, NameL)) }

\* generated documents, closed by w:sectPr as python-docx writes them
GeneratedBodies(d) ==
    {Append(b, SectPr) : b \in UNION {[1..n -> BlockPool(d)] : n \in 0..MaxBlocks}}

\* documents written out: the end-to-end scenario, a section of two
\* content blocks, markers that share their paragraph with other text or
\* hold inner whitespace, nested sections, content that names a key of the
\* enclosing context, tables in and around a section, scalar fields in
\* paragraphs and cells, a table nested in a cell, a name that holds "}",
\* a paragraph that ends with an open delimiter, a token followed by an
\* open delimiter, section content in two runs with a bold one
WrittenBodies(d) ==
    { << Para(<<"H", " ">> \o Tok(d, NameN)), Para(StartMarker(d, NameA)),
         Para(<<"-", " ">> \o Tok(d, NameL)), Para(EndMarker(d, NameA)) >>,
      << Para(StartMarker(d, NameA)), Para(<<"-", " ">> \o Tok(d, NameL)), Para(<<"x">>),
         Para(EndMarker(d, NameA)) >>,
      << Para(<<"x">> \o StartMarker(d, NameA)), Para(Tok(d, NameL)),
         Para(EndMarker(d, NameA) \o <<"y">>) >>,
      << Para(Tok(d, <<" ">> \o StartWord \o NameA \o <<" ">>)), Para(Tok(d, NameL)),
         Para(Tok(d, <<" ">> \o EndWord \o NameA \o <<" ">>)) >>,
      << Para(StartMarker(d, NameA)), Para(<<"x">>), Para(StartMarker(d, NameA)),
         Para(<<"y">>), Para(EndMarker(d, NameA)), Para(<<"z">>),
         Para(EndMarker(d, NameA)) >>,
      << Para(StartMarker(d, NameA)), Para(StartMarker(d, NameB)), Para(Tok(d, NameL)),
         Para(EndMarker(d, NameB)), Para(EndMarker(d, NameA)) >>,
      << Para(StartMarker(d, NameA)), Para(Tok(d, NameN) \o <<":">> \o Tok(d, NameL)),
         Para(EndMarker(d, NameA)), Para(Tok(d, NameN)) >>,
      << Para(StartMarker(d, NameA)), Row1(<<Tok(d, NameL), <<"x">> >>),
         Para(EndMarker(d, NameA)) >>,
      << Row1(<<Tok(d, NameL)>>), Para(StartMarker(d, NameA)), Para(Tok(d, NameL)),
         Para(EndMarker(d, NameA)) >>,
      << Para(StartMarker(d, NameA)), Para(Tok(d, NameL)), Para(EndMarker(d, NameA)),
         Row1(<<Tok(d, NameN)>>) >>,
      << Para(Tok(d, NameK)) >>,
      << Para(Tok(d, <<" ">> \o NameK \o <<" ">>)), Para(<<"x">> \o Tok(d, NameN) \o <<"y">>) >>,
      << Para(Tok(d, NameCN)), Row1(<<Tok(d, NameCN), Tok(d, NameK)>>) >>,
      << NestedTable(Tok(d, NameK), Tok(d, NameN)) >>,
      << Para(Tok(d, NameK \o <<"}">>)), Para(<<"x">> \o d[1]) >>,
      << Para(Tok(d, NameK) \o <<" ">> \o d[1] \o NameN) >>,
      << Para(StartMarker(d, NameA)), BoldStart(<<"x", "y">>), Para(EndMarker(d, NameA)) >> }

\* a written document with and without the closing w:sectPr
WrittenTemplates(d) ==
    WrittenBodies(d) \cup {Append(b, SectPr) : b \in WrittenBodies(d)}

\* the templates a Template is constructed on, each with the delimiter pair
\* its fields are written in
Templates ==
    {<<DefaultDelimiters, b>> : b \in GeneratedBodies(DefaultDelimiters)}
        \cup UNION {{<<d, b>> : b \in WrittenTemplates(d)} : d \in DelimiterPairs}

\* the items of a repeating section
ItemPool ==
    { << <<NameL, VStr(<<"A">>)>> >>,
      << <<NameN, VInt(0)>>, <<NameB, VList(<< << <<NameL, VStr(<<"A">>)>> >> >>)>> >> }

ItemLists == UNION {[1..n -> ItemPool] : n \in 0..MaxItems}

\* the contexts handed to merge_fields
Contexts(d) ==
    { << >>,
      << <<NameN, VStr(<<"A", "n", "a">>)>>,
         <<NameA, VList(<< << <<NameL, VStr(<<"A">>)>> >>, << <<NameL, VStr(<<"B">>)>> >> >>)>> >>,
      << <<NameK, VStr(<<"v">>)>>, <<NameL, VInt(12)>>, <<NameN, VBool(TRUE)>> >>,
      << <<NameK, VInt(0)>> >>,
      << <<NameK, VStr(Tok(d, NameN))>> >>,
      << <<<<"c">>, VDict(<< <<NameN, VStr(<<"A", "c", "m", "e">>)>> >>)>>,
         <<NameK, VBool(FALSE)>> >>,
      << <<NameCN, VStr(<<"f">>)>>, <<NameK, VStr(<<>>)>> >> }

\* the pieces the generated paragraph texts are made of
PiecePool(d) == {d[1], d[2], <<"}">>, <<" ">>, NameK, NameCN, <<"x">>}

\* generated paragraph texts, and one in which deleting a token joins the
\* literal text around it into a token
ScalarTexts(d) ==
    {Concat(ps) : ps \in UNION {[1..n -> PiecePool(d)] : n \in 0..MaxPieces}}
        \cup {d[1] \o NameN \o <<"}">> \o Tok(d, NameK) \o <<"}">>}

(***************************************************************************)
(* search.py: search_text and replace_text with a literal pattern          *)
(* (regex = False).  The pattern is re.escape(pattern), compiled with      *)
(* re.IGNORECASE unless case_sensitive; the replacement is handed to       *)
(* Pattern.subn as it is, so it is read as a replacement template.         *)
(***************************************************************************)
Backslash == "\\"

UpperLetters ==
    << "A", "B", "C", "D", "E", "F", "G", "H", "I", "J", "K", "L", "M", "N", "O", "P",
       "Q", "R", "S", "T", "U", "V", "W", "X", "Y", "Z" >>
LowerLetters ==
    << "a", "b", "c", "d", "e", "f", "g", "h", "i", "j", "k", "l", "m", "n", "o", "p",
       "q", "r", "s", "t", "u", "v", "w", "x", "y", "z" >>
Digits == {"0", "1", "2", "3", "4", "5", "6", "7", "8", "9"}

\* the character a letter is compared as under re.IGNORECASE
LowerChar(c) ==
    IF \E i \in 1..26 : UpperLetters[i] = c
    THEN LowerLetters[CHOOSE i \in 1..26 : UpperLetters[i] = c]
    ELSE c

IsAsciiLetter(c) == \E i \in 1..26 : UpperLetters[i] = c \/ LowerLetters[i] = c

\* a text as the compiled pattern compares it: as it is when
\* case_sensitive, letters folded otherwise
Fold(text, case_sensitive) ==
    IF case_sensitive THEN text ELSE [i \in 1..Len(text) |-> LowerChar(text[i])]

\* the compiled literal pattern matches text at Python offset i
LiteralMatchAt(text, i, pattern, case_sensitive) ==
    /\ i + Len(pattern) <= Len(text)
    /\ Fold(SubSeq(text, i + 1, i + Len(pattern)), case_sensitive)
        = Fold(pattern, case_sensitive)

\* list(pattern_obj.finditer(text)) from offset pos on, as <<start, end>>;
\* the empty pattern matches at every offset
RECURSIVE LiteralFinditer(_, _, _, _)
LiteralFinditer(text, pos, pattern, case_sensitive) ==
    IF pos > Len(text) THEN <<>>
    ELSE IF LiteralMatchAt(text, pos, pattern, case_sensitive)
    THEN << <<pos, pos + Len(pattern)>> >>
            \o LiteralFinditer(text, IF pattern = <<>> THEN pos + 1 ELSE pos + Len(pattern),
                               pattern, case_sensitive)
    ELSE LiteralFinditer(text, pos + 1, pattern, case_sensitive)

\* re.error raised when the replacement template is compiled
ReError(msg) == [kind |-> "re.error", msg |-> msg]

\* the replacement template expanded for one match of a pattern without
\* groups, from offset q of the template on: [error, text].  Modelled are
\* the escapes \\, \n, \t, \g<0>, \1..\9 before a non-digit, a backslash
\* before another letter, before a character that is neither letter nor
\* digit, and at the end
RECURSIVE ExpandTemplate(_, _, _)
ExpandTemplate(template, q, whole) ==
    IF q >= Len(template) THEN [error |-> NoError, text |-> <<>>]
    ELSE IF template[q + 1] # Backslash
    THEN LET rest == ExpandTemplate(template, q + 1, whole)
         IN  [rest EXCEPT !.text = <<template[q + 1]>> \o @]
    ELSE IF q + 1 >= Len(template)
    THEN [error |-> ReError(<<"bad escape (end of pattern)">>), text |-> <<>>]
    ELSE LET c == template[q + 2]
             then(text, n) ==
                LET rest == ExpandTemplate(template, q + n, whole)
                IN  [rest EXCEPT !.text = text \o @]
         IN  CASE c = Backslash -> then(<<Backslash>>, 2)
               [] c = "n" -> then(<<"\n">>, 2)
               [] c = "t" -> then(<<"\t">>, 2)
               [] c = "g" /\ StartsWithAt(template, q + 2, <<"<", "0", ">">>) ->
                    then(whole, 5)
               [] c \in Digits \ {"0"}
                    /\ (q + 2 >= Len(template) \/ template[q + 3] \notin Digits) ->
                    [error |-> ReError(<<"invalid group reference">>), text |-> <<>>]
               [] IsAsciiLetter(c)
                    /\ c \notin {"a", "b", "f", "g", "n", "r", "t", "v"} ->
                    [error |-> ReError(<<"bad escape">>), text |-> <<>>]
               [] ~IsAsciiLetter(c) /\ c \notin Digits /\ c # Backslash ->
                    then(<<Backslash, c>>, 2)

\* the text built by subn from the matches[k..], last_end being the end of
\* the match before
RECURSIVE SubnText(_, _, _, _, _)
SubnText(text, matches, k, last_end, template) ==
    IF k > Len(matches) THEN SubSeq(text, last_end + 1, Len(text))
    ELSE LET m == matches[k]
         IN  SubSeq(text, last_end + 1, m[1])
                \o ExpandTemplate(template, 0, SubSeq(text, m[1] + 1, m[2])).text
                \o SubnText(text, matches, k + 1, m[2], template)

\* pattern_obj.subn(replacement, text): [error, text, count]; a template
\* holding a backslash is compiled before the text is searched
Subn(text, pattern, replacement, case_sensitive) ==
    LET matches == LiteralFinditer(text, 0, pattern, case_sensitive)
        compiled == ExpandTemplate(replacement, 0, <<>>)
    IN  IF compiled.error # NoError
        THEN [error |-> compiled.error, text |-> text, count |-> 0]
        ELSE [error |-> NoError, text |-> SubnText(text, matches, 1, 0, replacement),
              count |-> Len(matches)]

\* _replace_paragraph: the paragraph is cleared and given one run holding
\* the new text when count > 0, and left as it is otherwise
ReplaceParagraph(paragraph, pattern, replacement, case_sensitive) ==
    LET r == Subn(ParagraphText(paragraph), pattern, replacement, case_sensitive)
    IN  IF r.count > 0 THEN AddRun(ParagraphClear(paragraph), r.text) ELSE paragraph

ReplaceCell(cell, pattern, replacement, case_sensitive) ==
    [cell EXCEPT !.paras = [i \in 1..Len(cell.paras) |->
        ReplaceParagraph(cell.paras[i], pattern, replacement, case_sensitive)]]

ReplaceTable(table, pattern, replacement, case_sensitive) ==
    [table EXCEPT !.rows = [i \in 1..Len(table.rows) |->
        [j \in 1..Len(table.rows[i]) |->
            ReplaceCell(table.rows[i][j], pattern, replacement, case_sensitive)]]]

\* the paragraphs replace_text and search_text visit: doc.paragraphs, then
\* cell.paragraphs of every cell of every row of doc.tables
RECURSIVE FlattenSeq(_)
FlattenSeq(ss) == IF ss = <<>> THEN <<>> ELSE Head(ss) \o FlattenSeq(Tail(ss))

TableParagraphs(table) ==
    FlattenSeq([i \in 1..Len(table.rows) |->
        FlattenSeq([j \in 1..Len(table.rows[i]) |-> table.rows[i][j].paras])])

VisitedParagraphs(b) ==
    SelectSeq(b, LAMBDA x : x.kind = "p")
        \o FlattenSeq([i \in 1..Len(b) |->
                IF b[i].kind = "tbl" THEN TableParagraphs(b[i]) ELSE <<>>])

\* the number of replacements summed over the paragraphs visited
RECURSIVE CountReplacements(_, _, _)
CountReplacements(paras, pattern, case_sensitive) ==
    IF paras = <<>> THEN 0
    ELSE Len(LiteralFinditer(ParagraphText(Head(paras)), 0, pattern, case_sensitive))
            + CountReplacements(Tail(paras), pattern, case_sensitive)

\* replace_text(doc, pattern, replacement, False, case_sensitive):
\* [body, count, error].  The first _replace_paragraph raises when the
\* template is bad, before any paragraph has been changed
ReplaceText(b, pattern, replacement, case_sensitive) ==
    LET compiled == ExpandTemplate(replacement, 0, <<>>)
    IN  IF VisitedParagraphs(b) # <<>> /\ compiled.error # NoError
        THEN [body |-> b, count |-> 0, error |-> compiled.error]
        ELSE [body |-> [i \in 1..Len(b) |->
                            IF b[i].kind = "p"
                            THEN ReplaceParagraph(b[i], pattern, replacement, case_sensitive)
                            ELSE IF b[i].kind = "tbl"
                            THEN ReplaceTable(b[i], pattern, replacement, case_sensitive)
                            ELSE b[i]],
              count |-> CountReplacements(VisitedParagraphs(b), pattern, case_sensitive),
              error |-> NoError]

\* the matches search_text(doc, pattern, False, case_sensitive) returns, in
\* the order of the paragraphs visited, each with its text, start and end
SearchText(b, pattern, case_sensitive) ==
    FlattenSeq([p \in 1..Len(VisitedParagraphs(b)) |->
        LET text == ParagraphText(VisitedParagraphs(b)[p])
            matches == LiteralFinditer(text, 0, pattern, case_sensitive)
        IN  [k \in 1..Len(matches) |->
                [text |-> SubSeq(text, matches[k][1] + 1, matches[k][2]),
                 start |-> matches[k][1], end |-> matches[k][2]]]])

\* the documents replace_text is called on
SearchBodies ==
    { << Para(<<"a", "a", "b">>) >>,
      << Para(<<"a", " ", "T", "e", "s", "t">>),
         Row1(<< <<"t", "e", "s", "t">>, <<"x">> >>), SectPr >>,
      << BoldStart(<<"a", "b", "x">>), Para(<<"y">>) >>,
      << NestedTable(<<"a", "b">>, <<"a", "b">>) >>,
      << Para(<<"x">>), Para(<<"a", "b">>), SectPr >>,
      << SectPr >> }

\* the literal patterns and the replacements of the calls
SearchPatterns == { <<"a", "b">>, <<"t", "e", "s", "t">>, <<"x">>, <<>> }
Replacements ==
    { <<"b">>, <<>>, <<"y">>, <<"A", "B">>, <<"d", "e", "m", "o">>,
      <<Backslash, "g", "<", "0", ">">>, <<Backslash, "1">>, <<Backslash, "n">> }

(***************************************************************************)
(* The state: the document of the template, the template's delimiters,     *)
(* whether the installed python-docx defines Table._tbl_elm, the number of *)
(* calls made, and the last call with the body it found and the error it   *)
(* raised.                                                                 *)
(***************************************************************************)
VARIABLES body, field_delimiters, tbl_elm, ncalls, call

vars == <<body, field_delimiters, tbl_elm, ncalls, call>>

\* get_fields not called since the document last changed
NotCalled == [called |-> FALSE, val |-> <<>>]

NoCall ==
    [op |-> "init", section_name |-> <<>>, items |-> <<>>, field_values |-> <<>>,
     remove_empty |-> TRUE, pre |-> <<>>, error |-> NoError,
     field_name |-> <<>>, paragraph |-> 0, cell |-> <<>>, fields |-> NotCalled,
     pattern |-> <<>>, replacement |-> <<>>, case_sensitive |-> FALSE, count |-> 0,
     first_pattern |-> <<>>, found |-> NotCalled,
     lengths |-> <<>>, origin |-> <<>>]

\* Template.__init__
Init ==
    /\ \E t \in Templates : field_delimiters = t[1] /\ body = t[2]
    /\ tbl_elm \in BOOLEAN
    /\ ncalls = 0
    /\ call = NoCall

\* Template.merge_fields(field_values, remove_empty)
MergeFields(field_values, remove_empty) ==
    /\ ncalls < MaxCalls
    /\ body' = MergeFieldsBody(body, field_values, remove_empty, field_delimiters)
    /\ call' = [NoCall EXCEPT !.op = "merge_fields", !.field_values = field_values,
                              !.remove_empty = remove_empty, !.pre = body]
    /\ ncalls' = ncalls + 1
    /\ UNCHANGED <<field_delimiters, tbl_elm>>

\* Template.merge_repeating_section(section_name, items); the model stops
\* growing a document beyond MaxBody blocks
MergeRepeatingSectionCall(section_name, items) ==
    /\ ncalls < MaxCalls
    /\ \E r \in {MergeRepeatingSection(body, section_name, items, field_delimiters, tbl_elm)} :
        /\ Len(r.body) <= MaxBody \/ Len(r.body) <= Len(body)
        /\ body' = r.body
        /\ call' = [NoCall EXCEPT !.op = "merge_repeating_section",
                                  !.section_name = section_name, !.items = items,
                                  !.pre = body, !.error = r.error]
    /\ ncalls' = ncalls + 1
    /\ UNCHANGED <<field_delimiters, tbl_elm>>

\* Template.merge_fields called again with the arguments of the call
\* before
MergeFieldsAgain ==
    /\ call.op = "merge_fields"
    /\ body' = MergeFieldsBody(body, call.field_values, call.remove_empty, field_delimiters)
    /\ call' = [call EXCEPT !.op = "merge_fields_again", !.pre = body, !.fields = NotCalled]
    /\ UNCHANGED <<field_delimiters, tbl_elm, ncalls>>

\* Template.get_fields(): the document is left as it is, the list returned
\* is kept with the last call
GetFields ==
    /\ ~call.fields.called
    /\ call' = [call EXCEPT !.fields = [called |-> TRUE,
                                        val |-> GetFieldsList(body, field_delimiters)]]
    /\ UNCHANGED <<body, field_delimiters, tbl_elm, ncalls>>

\* the paragraphs and cells of the document that add_field can be given
ParagraphTargets(b) == {i \in 1..Len(b) : b[i].kind = "p"}
CellTargets(b) ==
    UNION {UNION {{<<i, r, c>> : c \in 1..Len(b[i].rows[r])} : r \in 1..Len(b[i].rows)} :
            i \in {i \in 1..Len(b) : b[i].kind = "tbl"}}

\* Template.add_field(field_name, paragraph, cell)
AddFieldCall(field_name, paragraph, cell) ==
    /\ ncalls < MaxCalls
    /\ \E r \in {AddField(body, field_name, paragraph, cell, field_delimiters)} :
        /\ body' = r.body
        /\ call' = [NoCall EXCEPT !.op = "add_field", !.field_name = field_name,
                                  !.paragraph = paragraph, !.cell = cell,
                                  !.pre = body, !.error = r.error]
    /\ ncalls' = ncalls + 1
    /\ UNCHANGED <<field_delimiters, tbl_elm>>

\* the values given to a field that add_field has added
AddedValues == {VStr(<<"v">>), VInt(0)}

\* Template.merge_fields({field_name: v}, remove_empty) after
\* add_field(field_name, ...)
MergeAddedField(v, remove_empty) ==
    /\ call.op = "add_field"
    /\ call.error = NoError
    /\ body' = MergeFieldsBody(body, << <<call.field_name, v>> >>, remove_empty,
                               field_delimiters)
    /\ call' = [call EXCEPT !.op = "merge_added_field",
                            !.field_values = << <<call.field_name, v>> >>,
                            !.remove_empty = remove_empty, !.pre = body,
                            !.fields = NotCalled]
    /\ UNCHANGED <<field_delimiters, tbl_elm, ncalls>>

\* replace_text(doc, pattern, replacement, regex = False, case_sensitive)
ReplaceTextCall(pattern, replacement, case_sensitive) ==
    /\ ncalls < MaxCalls
    /\ \E r \in {ReplaceText(body, pattern, replacement, case_sensitive)} :
        /\ body' = r.body
        /\ call' = [NoCall EXCEPT !.op = "replace_text", !.pattern = pattern,
                                  !.replacement = replacement,
                                  !.case_sensitive = case_sensitive,
                                  !.first_pattern = pattern,
                                  !.pre = body, !.error = r.error, !.count = r.count]
    /\ ncalls' = ncalls + 1
    /\ UNCHANGED <<field_delimiters, tbl_elm>>

\* replace_text(doc, r1, r2) after replace_text(doc, p1, r1) has returned,
\* under the same case rule
ReplaceTextChained(replacement) ==
    /\ call.op = "replace_text"
    /\ call.error = NoError
    /\ \E r \in {ReplaceText(body, call.replacement, replacement, call.case_sensitive)} :
        /\ body' = r.body
        /\ call' = [call EXCEPT !.op = "replace_text_chained",
                                !.pattern = call.replacement,
                                !.replacement = replacement,
                                !.pre = body, !.error = r.error, !.count = r.count,
                                !.found = NotCalled]
    /\ UNCHANGED <<field_delimiters, tbl_elm, ncalls>>

\* search_text(doc, pattern, regex = False, case_sensitive) for the pattern
\* and under the case rule of the replace_text before
SearchTextCall ==
    /\ call.op \in {"replace_text", "replace_text_chained"}
    /\ ~call.found.called
    /\ call' = [call EXCEPT !.found =
                    [called |-> TRUE,
                     val |-> SearchText(body, call.pattern, call.case_sensitive)]]
    /\ UNCHANGED <<body, field_delimiters, tbl_elm, ncalls>>

\* Template.merge_repeating_section(section_name, items) called on the
\* document a returned call has left, or on the template as constructed;
\* kept with the call are the document the first call found and the
\* lengths of the item lists so far
MergeRepeatingSectionNext(section_name, items) ==
    /\ ncalls < MaxRepeats
    /\ call.op \in {"init", "merge_repeating_section"}
    /\ call.error = NoError
    /\ \E r \in {MergeRepeatingSection(body, section_name, items, field_delimiters, tbl_elm)} :
        /\ Len(r.body) <= MaxBody \/ Len(r.body) <= Len(body)
        /\ body' = r.body
        /\ call' = [NoCall EXCEPT !.op = "merge_repeating_section",
                                  !.section_name = section_name, !.items = items,
                                  !.pre = body, !.error = r.error,
                                  !.lengths = Append(call.lengths, Len(items)),
                                  !.origin = IF call.op = "init" THEN body
                                             ELSE call.origin]
    /\ ncalls' = ncalls + 1
    /\ UNCHANGED <<field_delimiters, tbl_elm>>

\* Template.merge_repeating_section(section_name, items) called on the
\* document merge_fields has left; kept with the call are the context and
\* remove_empty of the merge and the document the merge found
MergeRepeatingSectionAfterMerge(section_name, items) ==
    /\ call.op = "merge_fields"
    /\ \E r \in {MergeRepeatingSection(body, section_name, items, field_delimiters, tbl_elm)} :
        /\ Len(r.body) <= MaxBody \/ Len(r.body) <= Len(body)
        /\ body' = r.body
        /\ call' = [call EXCEPT !.op = "merge_fields_merge_repeating_section",
                                !.section_name = section_name, !.items = items,
                                !.origin = call.pre, !.pre = body,
                                !.error = r.error, !.fields = NotCalled]
    /\ UNCHANGED <<field_delimiters, tbl_elm, ncalls>>

Next ==
    \/ \E field_values \in Contexts(field_delimiters), remove_empty \in BOOLEAN :
            MergeFields(field_values, remove_empty)
    \/ \E section_name \in SectionNames, items \in ItemLists :
            MergeRepeatingSectionCall(section_name, items)

Spec == Init /\ [][Next]_vars

(***************************************************************************)
(* The field operations on the documents written out: merge_fields, once   *)
(* more with the same arguments, get_fields, add_field and the merge of    *)
(* the field added.                                                        *)
(***************************************************************************)
InitFields ==
    /\ \E d \in DelimiterPairs : field_delimiters = d /\ body \in WrittenTemplates(d)
    /\ tbl_elm \in BOOLEAN
    /\ ncalls = 0
    /\ call = NoCall

NextFields ==
    \/ \E field_values \in Contexts(field_delimiters), remove_empty \in BOOLEAN :
            MergeFields(field_values, remove_empty)
    \/ MergeFieldsAgain
    \/ GetFields
    \/ \E paragraph \in {0} \cup ParagraphTargets(body), cell \in {<<>>} \cup CellTargets(body) :
            AddFieldCall(NameK, paragraph, cell)
    \/ \E v \in AddedValues, remove_empty \in BOOLEAN : MergeAddedField(v, remove_empty)

SpecFields == InitFields /\ [][NextFields]_vars

(***************************************************************************)
(* merge_repeating_section called again and again with the same section    *)
(* name, on templates whose section holds paragraphs only.                 *)
(***************************************************************************)
\* the templates: a section of one paragraph, a section of two before the
\* w:sectPr, a section of one with a field token before and after it
RepeatBodies ==
    LET d == DefaultDelimiters
    IN  { << Para(StartMarker(d, NameA)), Para(<<"-", " ">> \o Tok(d, NameL)),
             Para(EndMarker(d, NameA)) >>,
          << Para(StartMarker(d, NameA)), Para(<<"-", " ">> \o Tok(d, NameL)),
             Para(<<"x">>), Para(EndMarker(d, NameA)), SectPr >>,
          << Para(Tok(d, NameN)), Para(StartMarker(d, NameA)), Para(Tok(d, NameL)),
             Para(EndMarker(d, NameA)), Para(Tok(d, NameN)) >> }

\* the items: a plain value, and a value that is the text of the end marker
RepeatItemPool ==
    { << <<NameL, VStr(<<"A">>)>> >>,
      << <<NameL, VStr(EndMarker(DefaultDelimiters, NameA))>> >> }

RepeatItemLists == UNION {[1..n -> RepeatItemPool] : n \in 0..MaxItems}

InitRepeat ==
    /\ field_delimiters = DefaultDelimiters
    /\ body \in RepeatBodies
    /\ tbl_elm \in BOOLEAN
    /\ ncalls = 0
    /\ call = NoCall

NextRepeat ==
    \E items \in RepeatItemLists : MergeRepeatingSectionNext(NameA, items)

SpecRepeat == InitRepeat /\ [][NextRepeat]_vars

(***************************************************************************)
(* merge_fields first and merge_repeating_section on what it leaves.       *)
(***************************************************************************)
\* the contexts of the merge: those of merge_fields, one with a value under
\* the key of the start marker only, one with a value under each marker's
\* key, the end marker's being empty
OrderContexts(d) ==
    Contexts(d)
        \cup { << <<StartWord \o NameA, VStr(<<"S">>)>> >>,
               << <<StartWord \o NameA, VStr(<<"S">>)>>,
                  <<EndWord \o NameA, VStr(<<>>)>> >> }

\* the item lists of the later call
OrderItemLists == { <<>>, << << <<NameL, VStr(<<"A">>)>> >> >> }

InitOrder ==
    /\ field_delimiters = DefaultDelimiters
    /\ body \in WrittenTemplates(field_delimiters)
    /\ tbl_elm \in BOOLEAN
    /\ ncalls = 0
    /\ call = NoCall

NextOrder ==
    \/ /\ call.op = "init"
       /\ \E field_values \in OrderContexts(field_delimiters), remove_empty \in BOOLEAN :
            MergeFields(field_values, remove_empty)
    \/ \E items \in OrderItemLists : MergeRepeatingSectionAfterMerge(NameA, items)

SpecOrder == InitOrder /\ [][NextOrder]_vars

(***************************************************************************)
(* replace_text, once more with the replacement as the pattern, and        *)
(* search_text, on documents that hold no template.                        *)
(***************************************************************************)
InitSearch ==
    /\ field_delimiters = DefaultDelimiters
    /\ body \in SearchBodies
    /\ tbl_elm = FALSE
    /\ ncalls = 0
    /\ call = NoCall

NextSearch ==
    \/ /\ call.op = "init"
       /\ \E pattern \in SearchPatterns, replacement \in Replacements,
             case_sensitive \in BOOLEAN :
                ReplaceTextCall(pattern, replacement, case_sensitive)
    \/ \E replacement \in Replacements : ReplaceTextChained(replacement)
    \/ SearchTextCall

SpecSearch == InitSearch /\ [][NextSearch]_vars

(***************************************************************************)
(* The Scalar Merger alone: a template of one paragraph, of a generated    *)
(* text in one run or in two, merged once.                                 *)
(***************************************************************************)
InitScalar ==
    /\ field_delimiters = DefaultDelimiters
    /\ \E text \in ScalarTexts(field_delimiters) :
            body = <<Para(text)>> \/ (Len(text) >= 2 /\ body = <<BoldStart(text)>>)
    /\ tbl_elm = FALSE
    /\ ncalls = 0
    /\ call = NoCall

NextScalar ==
    /\ call.op = "init"
    /\ \E field_values \in Contexts(field_delimiters), remove_empty \in BOOLEAN :
            MergeFields(field_values, remove_empty)

SpecScalar == InitScalar /\ [][NextScalar]_vars

(***************************************************************************)
(* Properties of merge_fields.  The operators of this part state what is   *)
(* expected of a call from the body it found (call.pre) and its arguments. *)
(***************************************************************************)
Merged == call.op = "merge_fields"

\* the positions of the body's own paragraphs
BodyParagraphs(b) == {i \in 1..Len(b) : b[i].kind = "p"}

\* a value that is a string, a number or a boolean
IsScalar(v) == v.kind \in {"str", "int", "bool"}

\* the matches the scanner finds in a text under the template's delimiters
MatchesOf(text) == FieldPatternFinditer(text, 0, field_delimiters)

\* text with the span of every match replaced by repl[k], the text outside
\* the spans kept; repl is a sequence of texts, one for each match
RECURSIVE Rebuilt(_, _, _, _)
Rebuilt(text, matches, repl, pos) ==
    IF pos >= Len(text) THEN <<>>
    ELSE IF \E k \in 1..Len(matches) : matches[k].start = pos
    THEN LET k == CHOOSE k \in 1..Len(matches) : matches[k].start = pos
         IN  repl[k] \o Rebuilt(text, matches, repl, matches[k].end)
    ELSE <<text[pos + 1]>> \o Rebuilt(text, matches, repl, pos + 1)

\* C1: a token {{c.n}} is replaced by the string form of the value found by
\* walking the context along c, n, whenever c is a nested mapping with key n
C1_DottedPathResolved ==
    Merged =>
        \A i \in BodyParagraphs(call.pre) :
            LET c == DictGet(call.field_values, <<"c">>, VStr(<<>>))
            IN  (/\ ParagraphText(call.pre[i]) = Tok(field_delimiters, NameCN)
                 /\ c.kind = "dict"
                 /\ NameN \in Keys(c.val))
                => ParagraphText(body[i]) = Str(DictGet(c.val, NameN, VStr(<<>>)))

\* C2: a paragraph whose text is the token {{k}} has, after merge_fields
\* with a context that gives k a scalar value v, the text str(v), under
\* either remove_empty
C2_ScalarMergedToStr ==
    Merged =>
        \A i \in BodyParagraphs(call.pre) :
            (/\ ParagraphText(call.pre[i]) = Tok(field_delimiters, NameK)
             /\ NameK \in Keys(call.field_values)
             /\ IsScalar(DictGet(call.field_values, NameK, VStr(<<>>))))
            => ParagraphText(body[i]) = Str(DictGet(call.field_values, NameK, VStr(<<>>)))

ExpectedReplacement(m, field_values, remove_empty) ==
    IF m.name \notin Keys(field_values)
    THEN IF remove_empty THEN <<>> ELSE m.whole
    ELSE Concat(FieldRun(m, field_values, remove_empty))

ParagraphTexts(b) ==
    LET ps == SelectSeq(b, LAMBDA e : e.kind = "p")
    IN  [i \in 1..Len(ps) |-> ParagraphText(ps[i])]

\* the template of the end-to-end scenario
ScenarioBody(d) ==
    << Para(<<"H", " ">> \o Tok(d, NameN)), Para(StartMarker(d, NameA)),
       Para(<<"-", " ">> \o Tok(d, NameL)), Para(EndMarker(d, NameA)) >>

\* the context of the end-to-end scenario
ScenarioContext ==
    << <<NameN, VStr(<<"A", "n", "a">>)>>,
       <<NameA, VList(<< << <<NameL, VStr(<<"A">>)>> >>, << <<NameL, VStr(<<"B">>)>> >> >>)>> >>

\* C4: merge_fields on the scenario's template with the scenario's context
\* leaves exactly the paragraphs "H Ana", "- A", "- B"
C4_EndToEndScenario ==
    (/\ Merged
     /\ call.pre \in {ScenarioBody(field_delimiters),
                      Append(ScenarioBody(field_delimiters), SectPr)}
     /\ call.field_values = ScenarioContext)
    => ParagraphTexts(body) = << <<"H", " ", "A", "n", "a">>, <<"-", " ", "A">>,
                                 <<"-", " ", "B">> >>

(***************************************************************************)
(* Properties of merge_repeating_section.                                  *)
(***************************************************************************)
Repeated == call.op = "merge_repeating_section"

Returned == Repeated /\ call.error = NoError

\* text without the whitespace at its two ends (str.strip)
RECURSIVE TrimLeft(_)
TrimLeft(t) == IF t # <<>> /\ IsSpace(Head(t)) THEN TrimLeft(Tail(t)) ELSE t

RECURSIVE TrimRight(_)
TrimRight(t) ==
    IF t # <<>> /\ IsSpace(t[Len(t)]) THEN TrimRight(SubSeq(t, 1, Len(t) - 1)) ELSE t

Trim(t) == TrimRight(TrimLeft(t))

\* t is a marker token of the called section: the open delimiter, word and
\* the section name with optional whitespace around them, the close
\* delimiter
IsMarkerToken(t, word) ==
    LET open == field_delimiters[1]
        close == field_delimiters[2]
    IN  /\ Len(t) >= Len(open) + Len(close)
        /\ SubSeq(t, 1, Len(open)) = open
        /\ SubSeq(t, Len(t) - Len(close) + 1, Len(t)) = close
        /\ Trim(SubSeq(t, Len(open) + 1, Len(t) - Len(close))) = word \o call.section_name

\* a paragraph whose whole trimmed text is a marker token
IsMarkerParagraph(e, word) ==
    e.kind = "p" /\ IsMarkerToken(Trim(ParagraphText(e)), word)

\* a paragraph whose text holds a marker token somewhere
HoldsMarkerToken(e, word) ==
    /\ e.kind = "p"
    /\ LET text == ParagraphText(e)
           open == field_delimiters[1]
       IN  \E i \in 1..Len(text) :
            /\ i + Len(open) - 1 <= Len(text)
            /\ SubSeq(text, i, i + Len(open) - 1) = open
            /\ \E j \in i..Len(text) : IsMarkerToken(SubSeq(text, i, j), word)

\* the paragraphs of b that hold a start token, and those that hold an end
\* token and no start token
StartHolders(b) == {i \in 1..Len(b) : HoldsMarkerToken(b[i], StartWord)}
EndHolders(b) ==
    {i \in 1..Len(b) : HoldsMarkerToken(b[i], EndWord) /\ ~HoldsMarkerToken(b[i], StartWord)}

\* least member of a non-empty set of positions, 0 for the empty set
First(S) == IF S = {} THEN 0 ELSE CHOOSE i \in S : \A j \in S : i <= j

\* starts and ends being the start and end markers of a document of `last`
\* blocks: the end that closes the section opened before position i at
\* nesting depth `depth`, 0 when there is none
RECURSIVE MatchingEnd(_, _, _, _, _)
MatchingEnd(starts, ends, last, i, depth) ==
    IF i > last THEN 0
    ELSE IF i \in starts THEN MatchingEnd(starts, ends, last, i + 1, depth + 1)
    ELSE IF i \in ends
    THEN IF depth = 1 THEN i ELSE MatchingEnd(starts, ends, last, i + 1, depth - 1)
    ELSE MatchingEnd(starts, ends, last, i + 1, depth)

\* the section of the called name: it opens at the first start marker and
\* closes at the end marker that matches it
SectionEnd(starts, ends, last) ==
    IF starts = {} THEN 0 ELSE MatchingEnd(starts, ends, last, First(starts) + 1, 1)

\* C5: after merge_repeating_section has returned, the document holds
\* fewer start marker paragraphs and fewer end marker paragraphs of the
\* section than before: the pair of the section is gone
C5_MarkersConsumed ==
    Returned =>
        /\ Cardinality(StartHolders(body)) < Cardinality(StartHolders(call.pre))
        /\ Cardinality(EndHolders(body)) < Cardinality(EndHolders(call.pre))

\* the n*k blocks expected of content range s+1..e-1 of b: block i*k + j is
\* content block j as the code clones it for items[i]
ExpectedCopies(b, s, e, items) ==
    LET k == e - s - 1
    IN  [m \in 1..(Len(items) * k) |->
            CloneElement(b[s + ((m - 1) % k) + 1], items[((m - 1) \div k) + 1],
                         field_delimiters)]

\* C6: after merge_repeating_section has returned on a document with a
\* section whose content range has k blocks, the content range is replaced
\* by the n*k copies in item order, the markers kept or consumed
C6_CopiesInItemOrder ==
    Returned =>
        LET b == call.pre
            starts == StartHolders(b)
            s == First(starts)
            e == SectionEnd(starts, EndHolders(b), Len(b))
            copies == ExpectedCopies(b, s, e, call.items)
        IN  e # 0 =>
                \/ body = SubSeq(b, 1, s) \o copies \o SubSeq(b, e, Len(b))
                \/ body = SubSeq(b, 1, s - 1) \o copies \o SubSeq(b, e + 1, Len(b))

\* no start marker of the section, or one and no end marker after the
\* first of them
MissingOrUnterminated(starts, ends) ==
    \/ starts = {}
    \/ \A i \in ends : i < First(starts)

\* C7: merge_repeating_section on a document without a start marker of the
\* section, or with one and no end marker after it, raises the
\* section-not-found error that names the section
C7_FailsWithSectionNotFound ==
    (Repeated /\ MissingOrUnterminated(StartHolders(call.pre), EndHolders(call.pre))) =>
        /\ call.error.kind = "ValueError"
        /\ Contains(call.error.msg, call.section_name)

\* the error the same call raises on a document that has no marker at all
ErrorOfMissingStart ==
    MergeRepeatingSection(<<>>, call.section_name, call.items, field_delimiters,
                          tbl_elm).error

IterationRaises(b, ends) ==
    /\ ~tbl_elm
    /\ \E i \in 1..Len(b) : b[i].kind # "p" /\ \A j \in ends : j > i

Overlay(item, base) ==
    item \o SelectSeq(base, LAMBDA kv : kv[1] \notin Keys(item))

\* the text of a clone whose fields are resolved in context: the string
\* form of the value of a key the context has, nothing for any other field
ResolvedText(text, context) ==
    LET matches == MatchesOf(text)
        repl == [k \in 1..Len(matches) |->
                    IF matches[k].name \in Keys(context)
                    THEN Str(DictGet(context, matches[k].name, VStr(<<>>)))
                    ELSE <<>>]
    IN  Rebuilt(text, matches, repl, 0)

\* the text of a clone as the code resolves it: the string form of the
\* item's value for a key of the item whose value is not empty (not "", 0,
\* False), nothing for any other field
ItemText(text, item) ==
    LET matches == MatchesOf(text)
        repl == [k \in 1..Len(matches) |->
                    IF /\ matches[k].name \in Keys(item)
                       /\ Truthy(DictGet(item, matches[k].name, VStr(<<>>)))
                    THEN Str(DictGet(item, matches[k].name, VStr(<<>>)))
                    ELSE <<>>]
    IN  Rebuilt(text, matches, repl, 0)

\* a document with one start marker of the section and an end marker
\* after it, none before it: the position of the start marker and of the
\* first end marker, <<0, 0>> for any other document
PlainSection(b) ==
    LET starts == StartHolders(b)
        ends == EndHolders(b)
    IN  IF Cardinality(starts) = 1 /\ ends # {} /\ First(starts) < First(ends)
        THEN <<First(starts), First(ends)>>
        ELSE <<0, 0>>

\* the content positions of the section s..e of b that hold paragraphs
ContentParagraphs(b, s, e) == {j \in 1..(e - s - 1) : b[s + j].kind = "p"}

\* the text of the clone of content block j of the k for item i, the
\* start marker at s
CloneText(s, k, i, j) == ParagraphText(body[s + (i - 1) * k + j])

NestedPairs(b, s, e, nested) ==
    {pq \in (s + 1..e - 1) \X (s + 1..e - 1) :
        /\ pq[1] < pq[2]
        /\ b[pq[1]].kind = "p"
        /\ b[pq[2]].kind = "p"
        /\ Trim(ParagraphText(b[pq[1]])) = StartMarker(field_delimiters, nested)
        /\ Trim(ParagraphText(b[pq[2]])) = EndMarker(field_delimiters, nested)}

\* the value a context binds a name to is a list
BindsList(context, name) ==
    name \in Keys(context) /\ DictGet(context, name, VStr(<<>>)).kind = "list"

\* C11: when the content of the section holds the marker pair of a nested
\* section b and an item binds b to a list, the document holds, for every
\* element of that list, the nested content merged against the element
C11_NestedSectionExpanded ==
    Returned =>
        LET b == call.pre
            s == PlainSection(b)[1]
            e == PlainSection(b)[2]
        IN  s # 0 =>
                \A pq \in NestedPairs(b, s, e, NameB) : \A i \in 1..Len(call.items) :
                    BindsList(call.items[i], NameB) =>
                        LET nested == DictGet(call.items[i], NameB, VStr(<<>>)).val
                        IN  \A m \in 1..Len(nested) : \A c \in (pq[1] + 1)..(pq[2] - 1) :
                                b[c].kind = "p" =>
                                    \E x \in 1..Len(body) :
                                        /\ body[x].kind = "p"
                                        /\ ParagraphText(body[x])
                                            = ItemText(ParagraphText(b[c]), nested[m])

\* C12: a paragraph that held at least one field token has, after the
\* merge, exactly one run, and that run carries the formatting of the
\* original first run
C12_OneRunWithFirstFormat ==
    Merged =>
        \A i \in BodyParagraphs(call.pre) :
            MatchesOf(ParagraphText(call.pre[i])) # <<>> =>
                /\ Len(body[i].runs) = 1
                /\ body[i].runs[1].text = ParagraphText(body[i])
                /\ body[i].runs[1].fmt = call.pre[i].runs[1].fmt

\* C13: a paragraph whose text holds no field token is left as it was by
\* merge_fields: the same runs, with the same texts and formatting
C13_NoTokenParagraphUntouched ==
    Merged =>
        \A i \in BodyParagraphs(call.pre) :
            MatchesOf(ParagraphText(call.pre[i])) = <<>> => body[i] = call.pre[i]

\* C13 witness: a two-run paragraph with a bold first run and no token has
\* been merged with a context that is not empty
C13_Witness ==
    /\ Merged
    /\ call.field_values # <<>>
    /\ Len(call.pre[1].runs) = 2
    /\ call.pre[1].runs[1].fmt = "bold"
    /\ MatchesOf(ParagraphText(call.pre[1])) = <<>>
    /\ body[1].runs = call.pre[1].runs

\* a text written with the pair d, rewritten with the default pair: every
\* occurrence of open and of close, from the left, replaced by {{ and }}
RECURSIVE ToDefault(_, _, _)
ToDefault(text, d, p) ==
    IF p >= Len(text) THEN <<>>
    ELSE IF StartsWithAt(text, p, d[1])
    THEN DefaultDelimiters[1] \o ToDefault(text, d, p + Len(d[1]))
    ELSE IF StartsWithAt(text, p, d[2])
    THEN DefaultDelimiters[2] \o ToDefault(text, d, p + Len(d[2]))
    ELSE <<text[p + 1]>> \o ToDefault(text, d, p + 1)

\* the names and spans of a sequence of matches
Spans(matches) ==
    [k \in 1..Len(matches) |->
        [name |-> matches[k].name, start |-> matches[k].start, end |-> matches[k].end]]

\* the names a token is written with in the documents of the model
TokenNames == {NameK, NameL, NameN, NameCN, NameK \o <<"}">>}

\* C14: under every delimiter pair a paragraph that is open + name + close,
\* the name holding no close, is scanned as the one field name, and every
\* paragraph is scanned to the names and spans that the same text written
\* with the default pair is scanned to
C14_ScanIndependentOfDelimiters ==
    call.fields.called =>
        \A i \in BodyParagraphs(body) :
            LET text == ParagraphText(body[i])
            IN  /\ \A name \in TokenNames :
                        (text = Tok(field_delimiters, name)
                            /\ ~Contains(name, field_delimiters[2]))
                        => /\ \E x \in 1..Len(call.fields.val) : call.fields.val[x] = name
                           /\ Spans(MatchesOf(text))
                                = <<[name |-> name, start |-> 0, end |-> Len(text)]>>
                /\ Spans(MatchesOf(text))
                    = Spans(FieldPatternFinditer(ToDefault(text, field_delimiters, 0), 0,
                                                 DefaultDelimiters))

\* the positions of the body's own (top-level) tables
BodyTables(b) == {i \in 1..Len(b) : b[i].kind = "tbl"}

\* C15: a cell of a top-level table whose text is the token {{k}} has,
\* after merge_fields with a context that gives k a scalar value v, the
\* text str(v)
C15_CellTokenMergedToStr ==
    Merged =>
        \A i \in BodyTables(call.pre) :
            \A r \in 1..Len(call.pre[i].rows) : \A c \in 1..Len(call.pre[i].rows[r]) :
                (/\ CellText(call.pre[i].rows[r][c]) = Tok(field_delimiters, NameK)
                 /\ NameK \in Keys(call.field_values)
                 /\ IsScalar(DictGet(call.field_values, NameK, VStr(<<>>))))
                => CellText(body[i].rows[r][c])
                    = Str(DictGet(call.field_values, NameK, VStr(<<>>)))

\* C16: a paragraph of a table nested in a cell of a top-level table whose
\* text is the token {{n}} has, after merge_fields with a context that
\* gives n a value that is true, the text str(v)
C16_NestedTableTokenMerged ==
    Merged =>
        \A i \in BodyTables(call.pre) :
            \A r \in 1..Len(call.pre[i].rows) : \A c \in 1..Len(call.pre[i].rows[r]) :
                \A t \in 1..Len(call.pre[i].rows[r][c].tables) :
                    LET nested == call.pre[i].rows[r][c].tables[t]
                        merged == body[i].rows[r][c].tables[t]
                        v == DictGet(call.field_values, NameN, VStr(<<>>))
                    IN  \A nr \in 1..Len(nested.rows) : \A nc \in 1..Len(nested.rows[nr]) :
                            (/\ CellText(nested.rows[nr][nc]) = Tok(field_delimiters, NameN)
                             /\ NameN \in Keys(call.field_values)
                             /\ IsScalar(v)
                             /\ Truthy(v))
                            => CellText(merged.rows[nr][nc]) = Str(v)

\* C17: a second merge_fields with the context and remove_empty of the
\* first leaves the document as the first call left it: every paragraph
\* has the same text and the same runs
C17_SecondMergeChangesNothing ==
    call.op = "merge_fields_again" => body = call.pre

\* the names of the tokens the scanner matches in a sequence of paragraphs
NamesIn(paras) ==
    UNION {{MatchesOf(ParagraphText(paras[p]))[k].name :
                k \in 1..Len(MatchesOf(ParagraphText(paras[p])))} : p \in 1..Len(paras)}

\* the names of the tokens in the body's paragraphs and in the paragraphs
\* of the cells of the body's tables
TokenNamesOf(b) ==
    UNION {IF b[i].kind = "p" THEN NamesIn(<<b[i]>>)
           ELSE IF b[i].kind = "tbl"
           THEN UNION {UNION {NamesIn(b[i].rows[r][c].paras) :
                                c \in 1..Len(b[i].rows[r])} : r \in 1..Len(b[i].rows)}
           ELSE {} : i \in 1..Len(b)}

EndsWith(text, w) == StartsWithAt(text, Len(text) - Len(w), w)

\* C19: after add_field(name, paragraph = p) the list get_fields returns
\* holds name, and after the following merge_fields({name: v}) the token
\* added at the end of p has been replaced by str(v)
C19_AddedFieldListedAndMerged ==
    /\ (/\ call.op = "add_field"
        /\ call.paragraph # 0
        /\ call.fields.called)
       => \E x \in 1..Len(call.fields.val) : call.fields.val[x] = call.field_name
    /\ (/\ call.op = "merge_added_field"
        /\ call.paragraph # 0)
       => EndsWith(ParagraphText(body[call.paragraph]),
                   Str(DictGet(call.field_values, call.field_name, VStr(<<>>))))

Holds(text, w, case_sensitive) ==
    Contains(Fold(text, case_sensitive), Fold(w, case_sensitive))

\* whether a paragraph the search visits holds w under the case rule
SomeParagraphHolds(b, w, case_sensitive) ==
    \E p \in 1..Len(VisitedParagraphs(b)) :
        Holds(ParagraphText(VisitedParagraphs(b)[p]), w, case_sensitive)

\* C21: after replace_text(doc, p, r), r not holding p under the case rule,
\* no body paragraph and no paragraph of a table cell holds p and
\* search_text finds nothing; after the chain p1 -> r1, r1 -> r2, where in
\* addition r2 holds neither r1 nor p1, no paragraph holds p1 or r1
C21_PatternGoneAfterReplace ==
    /\ (/\ call.op = "replace_text"
        /\ ~Holds(call.replacement, call.pattern, call.case_sensitive))
       => /\ ~SomeParagraphHolds(body, call.pattern, call.case_sensitive)
          /\ call.found.called => call.found.val = <<>>
    /\ (/\ call.op = "replace_text_chained"
        /\ ~Holds(call.pattern, call.first_pattern, call.case_sensitive)
        /\ ~Holds(call.replacement, call.pattern, call.case_sensitive)
        /\ ~Holds(call.replacement, call.first_pattern, call.case_sensitive))
       => /\ ~SomeParagraphHolds(body, call.first_pattern, call.case_sensitive)
          /\ ~SomeParagraphHolds(body, call.pattern, call.case_sensitive)

(***************************************************************************)
(* Section location, scanning, clones and frames.                          *)
(***************************************************************************)
\* the names sections are written with in the documents of the model
MarkerNames == {NameA, NameB}

\* the paragraphs of b in which a start marker, or an end marker and no
\* start marker, of any name is found
AnyStarts(b) ==
    {i \in 1..Len(b) :
        /\ b[i].kind = "p"
        /\ \E n \in MarkerNames :
            SearchMarker(ParagraphText(b[i]), StartWord, n, field_delimiters)}
AnyEnds(b) ==
    {i \in 1..Len(b) :
        /\ b[i].kind = "p"
        /\ i \notin AnyStarts(b)
        /\ \E n \in MarkerNames :
            SearchMarker(ParagraphText(b[i]), EndWord, n, field_delimiters)}

\* the section the scan of merge_repeating_section locates in the document
\* the call found
LocatedSection ==
    ScanSection(call.pre, 1, 0, <<>>, call.section_name, field_delimiters, tbl_elm)

\* C22: the section located runs from the first start marker of the name
\* to the end marker at the same nesting depth, every start marker after
\* the first raising the depth and every end marker lowering it, and its
\* content is every block in between
C22_SectionPairedByDepth ==
    Returned =>
        LET s == First({i \in AnyStarts(call.pre) :
                        SearchMarker(ParagraphText(call.pre[i]), StartWord,
                                     call.section_name, field_delimiters)})
            e == IF s = 0 THEN 0
                 ELSE MatchingEnd(AnyStarts(call.pre), AnyEnds(call.pre),
                                  Len(call.pre), s + 1, 1)
        IN  (s # 0 /\ e # 0) =>
                /\ LocatedSection.start = s
                /\ LocatedSection.end = e
                /\ LocatedSection.content = [k \in 1..(e - s - 1) |-> s + k]

\* every character of t is whitespace
AllSpace(t) == \A x \in 1..Len(t) : IsSpace(t[x])

\* the span of match m of text is the open delimiter, the name with
\* whitespace at most around it, and the close delimiter
SpanCoversToken(text, m) ==
    LET open == field_delimiters[1]
        close == field_delimiters[2]
        inner == SubSeq(text, m.start + Len(open) + 1, m.end - Len(close))
    IN  /\ StartsWithAt(text, m.start, open)
        /\ StartsWithAt(text, m.end - Len(close), close)
        /\ m.start + Len(open) <= m.end - Len(close)
        /\ \E p \in 0..Len(inner) :
            /\ StartsWithAt(inner, p, m.name)
            /\ AllSpace(SubSeq(inner, 1, p))
            /\ AllSpace(SubSeq(inner, p + Len(m.name) + 1, Len(inner)))

\* C23: the matches of a paragraph's text are ordered left to right and do
\* not overlap, each span covers open, name and close, and the text the
\* merge leaves is the literal text before the first match, for each match
\* its replacement, the literal text between matches, and the literal text
\* after the last match
C23_MatchesOrderedTextInterleaved ==
    Merged =>
        \A i \in BodyParagraphs(call.pre) :
            LET text == ParagraphText(call.pre[i])
                matches == MatchesOf(text)
                repl == [k \in 1..Len(matches) |->
                            Concat(FieldRun(matches[k], call.field_values,
                                            call.remove_empty))]
            IN  /\ \A k \in 1..Len(matches) :
                    /\ 0 <= matches[k].start
                    /\ matches[k].start < matches[k].end
                    /\ matches[k].end <= Len(text)
                    /\ SpanCoversToken(text, matches[k])
                    /\ k < Len(matches) => matches[k].end <= matches[k + 1].start
                /\ ParagraphText(body[i]) = Rebuilt(text, matches, repl, 0)

\* C23 witness: a paragraph with two matches and literal text between them
\* has been merged to another text
C23_Witness ==
    /\ Merged
    /\ \E i \in BodyParagraphs(call.pre) :
        LET matches == MatchesOf(ParagraphText(call.pre[i]))
        IN  /\ Len(matches) = 2
            /\ matches[1].end < matches[2].start
            /\ ParagraphText(body[i]) # ParagraphText(call.pre[i])

\* the offsets of text at which an open delimiter stands that has no close
\* delimiter after it
LoneOpens(text) ==
    {q \in 0..Len(text) :
        /\ StartsWithAt(text, q, field_delimiters[1])
        /\ \A c \in (q + Len(field_delimiters[1]))..Len(text) :
            ~StartsWithAt(text, c, field_delimiters[2])}

\* text up to its first open delimiter without a close, and the rest
BeforeLoneOpen(text) ==
    IF LoneOpens(text) = {} THEN text ELSE SubSeq(text, 1, First(LoneOpens(text)))
FromLoneOpen(text) ==
    IF LoneOpens(text) = {} THEN <<>>
    ELSE SubSeq(text, First(LoneOpens(text)) + 1, Len(text))

\* a document with the text of every body paragraph cut before its first
\* open delimiter without a close
CutLoneOpens(b) ==
    [i \in 1..Len(b) |->
        IF b[i].kind = "p" THEN Para(BeforeLoneOpen(ParagraphText(b[i]))) ELSE b[i]]

\* C24: an open delimiter with no close delimiter after it is no match and
\* no error: the matches of the text are those of the text before it,
\* get_fields returns the names it returns without it, and merge_fields
\* leaves it and the text after it where they are, behind the merged text
\* before it
C24_LoneOpenIsNoMatch ==
    /\ \A i \in BodyParagraphs(body) :
        MatchesOf(ParagraphText(body[i])) = MatchesOf(BeforeLoneOpen(ParagraphText(body[i])))
    /\ call.fields.called =>
        call.fields.val = GetFieldsList(CutLoneOpens(body), field_delimiters)
    /\ Merged =>
        /\ call.error = NoError
        /\ \A i \in BodyParagraphs(call.pre) :
            LET text == ParagraphText(call.pre[i])
            IN  ParagraphText(body[i]) =
                    ParagraphText(MergeParagraphFields(Para(BeforeLoneOpen(text)),
                                                       call.field_values,
                                                       call.remove_empty,
                                                       field_delimiters))
                        \o FromLoneOpen(text)

\* C24 witness: get_fields has been called after merge_fields on a
\* paragraph that held a token and, after it, an open delimiter without a
\* close; the token has been merged and the open delimiter is still there
C24_Witness ==
    /\ Merged
    /\ call.fields.called
    /\ \E i \in BodyParagraphs(call.pre) :
        LET text == ParagraphText(call.pre[i])
        IN  /\ LoneOpens(text) # {}
            /\ MatchesOf(text) # <<>>
            /\ ParagraphText(body[i]) # text
            /\ LoneOpens(ParagraphText(body[i])) # {}

\* C25: every name the scanner extracts from a paragraph's text is not
\* empty and neither begins nor ends with whitespace, and the token
\* written with a blank on each side of the name k names the field k
C25_NamesTrimmedAndNonEmpty ==
    Merged =>
        \A i \in BodyParagraphs(call.pre) :
            LET text == ParagraphText(call.pre[i])
                matches == MatchesOf(text)
            IN  /\ \A k \in 1..Len(matches) :
                    /\ matches[k].name # <<>>
                    /\ ~IsSpace(matches[k].name[1])
                    /\ ~IsSpace(matches[k].name[Len(matches[k].name)])
                /\ text = Tok(field_delimiters, <<" ">> \o NameK \o <<" ">>)
                    => (Len(matches) = 1 /\ matches[1].name = NameK)

\* a cell none of whose paragraphs holds a field token
CellWithoutToken(cell) ==
    \A p \in 1..Len(cell.paras) : MatchesOf(ParagraphText(cell.paras[p])) = <<>>

\* C26: in every clone a content paragraph without field token is the
\* original paragraph, with its runs, their texts and their formatting,
\* and a content table is a table of the same rows and columns whose cells
\* without field token are the original cells
C26_ClonesAreDeepCopies ==
    Returned =>
        LET b == call.pre
            s == PlainSection(b)[1]
            e == PlainSection(b)[2]
            k == e - s - 1
        IN  s # 0 =>
                \A i \in 1..Len(call.items) : \A j \in 1..k :
                    LET original == b[s + j]
                        clone == body[s + (i - 1) * k + j]
                    IN  /\ (original.kind = "p"
                                /\ MatchesOf(ParagraphText(original)) = <<>>)
                            => clone = original
                        /\ original.kind = "tbl"
                            => /\ clone.kind = "tbl"
                               /\ Len(clone.rows) = Len(original.rows)
                               /\ \A r \in 1..Len(original.rows) :
                                    /\ Len(clone.rows[r]) = Len(original.rows[r])
                                    /\ \A c \in 1..Len(original.rows[r]) :
                                        CellWithoutToken(original.rows[r][c])
                                            => clone.rows[r][c] = original.rows[r][c]

\* the paragraphs of b in which the scan finds the start marker of the
\* called section, and those in which it finds the end marker and no start
\* marker
NameStarts(b) ==
    {i \in AnyStarts(b) :
        SearchMarker(ParagraphText(b[i]), StartWord, call.section_name, field_delimiters)}
NameEnds(b) ==
    {i \in 1..Len(b) :
        /\ b[i].kind = "p"
        /\ i \notin NameStarts(b)
        /\ SearchMarker(ParagraphText(b[i]), EndWord, call.section_name, field_delimiters)}

\* C27: after merge_repeating_section has returned, the document up to the
\* first start marker of the section and the document from the first end
\* marker on are as they were: the same blocks in the same order, none
\* gained and none lost, for every item list
C27_OnlySectionAffected ==
    Returned =>
        LET b == call.pre
            s == First(NameStarts(b))
            e == First(NameEnds(b))
            after == Len(b) - e
        IN  /\ s # 0
            /\ s < e
            /\ Len(body) >= s + after + 1
            /\ SubSeq(body, 1, s) = SubSeq(b, 1, s)
            /\ SubSeq(body, Len(body) - after, Len(body)) = SubSeq(b, e, Len(b))

\* C27 witness: a section has been expanded for two items in a document
\* that holds, after the end marker, a paragraph with a field token
C27_Witness ==
    /\ Returned
    /\ Len(call.items) = 2
    /\ Len(body) > Len(call.pre)
    /\ LET e == First(NameEnds(call.pre))
       IN  \E i \in (e + 1)..Len(call.pre) :
            /\ call.pre[i].kind = "p"
            /\ MatchesOf(ParagraphText(call.pre[i])) # <<>>

\* C28: when merge_repeating_section raises, for a start or an end marker
\* that is missing as for the iteration that fails, the document is the
\* document the call found: no block removed, inserted or rewritten
C28_FailureLeavesDocument ==
    (Repeated /\ call.error # NoError) => body = call.pre

\* C28 witness: the call has failed with section-not-found on a document
\* that holds the start marker and content after it, but no end marker,
\* and was given items
C28_Witness ==
    /\ Repeated
    /\ call.error = SectionNotFoundError(call.section_name)
    /\ call.items # <<>>
    /\ NameStarts(call.pre) # {}
    /\ NameEnds(call.pre) = {}
    /\ LocatedSection.content # <<>>
    /\ body = call.pre


(***************************************************************************)
(* Properties of merge_repeating_section called several times.            *)
(***************************************************************************)
\* n1 * ... * nm
RECURSIVE Product(_)
Product(lengths) ==
    IF lengths = <<>> THEN 1 ELSE Head(lengths) * Product(Tail(lengths))

\* the number of blocks of b between the first start marker of the called
\* section and the first end marker
BlocksBetweenMarkers(b) == First(NameEnds(b)) - First(NameStarts(b)) - 1

\* the first call found one start marker, an end marker after it and
\* paragraphs only between them
OriginPlain ==
    LET b == call.origin
        s == First(NameStarts(b))
        e == First(NameEnds(b))
    IN  /\ Cardinality(NameStarts(b)) = 1
        /\ s < e
        /\ \A i \in (s + 1)..(e - 1) : b[i].kind = "p"

\* C29 as stated: after any sequence of returned calls, the section holds
\* k * n1 * ... * nm blocks between its markers
C29_AnySequenceCompounds ==
    (Returned /\ OriginPlain) =>
        BlocksBetweenMarkers(body)
            = BlocksBetweenMarkers(call.origin) * Product(call.lengths)

\* C29: every call of a sequence of merge_repeating_section calls on a
\* section of k paragraphs finds the section, and while the document holds
\* one start marker and one end marker of the section (no item value has
\* written marker text between them) the number of blocks between the
\* markers after item lists of lengths n1, ..., nm is k * n1 * ... * nm
C29_SequenceCompounds ==
    (Repeated /\ OriginPlain) =>
        /\ call.error = NoError
        /\ (Cardinality(NameStarts(body)) = 1 /\ Cardinality(NameEnds(body)) = 1)
            => BlocksBetweenMarkers(body)
                = BlocksBetweenMarkers(call.origin) * Product(call.lengths)

\* C29 witness: two calls with two items each have made four blocks of a
\* section of one
C29_Witness ==
    /\ Returned
    /\ OriginPlain
    /\ call.lengths = <<2, 2>>
    /\ BlocksBetweenMarkers(call.origin) = 1
    /\ Cardinality(NameEnds(body)) = 1
    /\ BlocksBetweenMarkers(body) = 4

\* C29 witness of the empty list: after an empty list the section stays
\* empty whatever the next list holds
C29_WitnessEmpty ==
    /\ Returned
    /\ OriginPlain
    /\ Len(call.lengths) >= 2
    /\ call.lengths[1] = 0
    /\ call.lengths[Len(call.lengths)] = 2
    /\ BlocksBetweenMarkers(body) = 0


(***************************************************************************)
(* Properties of merge_fields followed by merge_repeating_section.         *)
(***************************************************************************)
\* merge_repeating_section has been called on what merge_fields left
MergedThenRepeated == call.op = "merge_fields_merge_repeating_section"

\* the context of the merge holds a truthy value under the key
TruthyUnder(key) ==
    /\ key \in Keys(call.field_values)
    /\ Truthy(DictGet(call.field_values, key, VStr(<<>>)))

\* the paragraphs of b that hold the end marker of the called section
NameEndHolders(b) ==
    {i \in 1..Len(b) :
        /\ b[i].kind = "p"
        /\ SearchMarker(ParagraphText(b[i]), EndWord, call.section_name, field_delimiters)}

\* b holds a start marker of the called section before its first end
\* marker
SectionWritten(b) ==
    /\ NameEnds(b) # {}
    /\ \E s \in NameStarts(b) : s < First(NameEnds(b))

\* C30: when merge_fields with remove_empty=True has run before
\* merge_repeating_section and its context has no truthy value under the
\* start marker's key or under the end marker's, the merge has erased that
\* marker's text and the later call fails with section-not-found; when it
\* has run with remove_empty=False and neither key in its context, the
\* markers are where they were and the later call finds the section the
\* document was written with
C30_MergeFirstLosesSection ==
    MergedThenRepeated =>
        LET start_key == StartWord \o call.section_name
            end_key == EndWord \o call.section_name
        IN  /\ (call.remove_empty /\ ~TruthyUnder(start_key))
                => /\ NameStarts(call.pre) = {}
                   /\ call.error = SectionNotFoundError(call.section_name)
            /\ (call.remove_empty /\ ~TruthyUnder(end_key))
                => /\ NameEndHolders(call.pre) = {}
                   /\ call.error = SectionNotFoundError(call.section_name)
            /\ (/\ ~call.remove_empty
                /\ start_key \notin Keys(call.field_values)
                /\ end_key \notin Keys(call.field_values))
                => /\ NameStarts(call.pre) = NameStarts(call.origin)
                   /\ NameEndHolders(call.pre) = NameEndHolders(call.origin)
                   /\ SectionWritten(call.origin) => call.error = NoError

=============================================================================
